---- MODULE Spec2Model ----
\* GitHub Sourcing Engine (src/app.py): the repository search with its
\* one-hour cache, the star-velocity estimator, the classifier and the scan
\* loop of the page script.
EXTENDS Integers, Sequences, FiniteSets, TLC

VARIABLES
    pc,             \* position of the script / of the current call
    topic,          \* sidebar topic of the running scan
    repos,          \* line 221: list returned by fetch_repos
    results,        \* line 224: rows appended by the scan loop
    df,             \* line 247: rows sorted by velocity
    idx,            \* line 227: number of repositories already analysed
    bucket,         \* line 230: last value returned by bucket_repo
    cache,          \* line 106: st.cache_data entries, topic -> entry
    clock,          \* time of the cache, in seconds
    searchLog,      \* search requests issued, <<topic, time, returned list>>
    calls,          \* fetch_repos calls made, <<topic, time, returned list>>
    raised,         \* an exception escaped to the script
    sresp,          \* last search response received
    catalogue,      \* repositories the search endpoint knows, by stars
    server,         \* what the stargazer endpoint serves for the current call
    total_stars,    \* argument of get_star_velocity / bucket_repo
    velocity,       \* value returned by get_star_velocity
    cutoff_date,    \* line 127
    current_page,   \* line 129
    pages_checked,  \* line 130
    count_7_days,   \* line 126
    requests,       \* page numbers requested by the current call, in order
    examined,       \* events examined by the current call
    resp,           \* last stargazer response received
    stop            \* why the current call ended

vars == <<pc, topic, repos, results, df, idx, bucket, cache, clock, searchLog,
          calls, raised, sresp, catalogue, server, total_stars, velocity, cutoff_date,
          current_page, pages_checked, count_7_days, requests, examined,
          resp, stop>>

scanVars == <<topic, repos, results, df, idx>>
cacheVars == <<cache, clock, searchLog, calls, raised, sresp, catalogue>>
callVars == <<velocity, cutoff_date, current_page, pages_checked,
              count_7_days, requests, examined, resp, stop>>

----------------------------------------------------------------------------
\* Program constants

per_page == 100
MaxLastPage == 400
max_pages_to_check == 5
WindowDays == 7
SecondsPerDay == 86400
ttl == 3600
HugeStars == 40000
BreakoutVelocity == 50
GrowingVelocity == 10

\* Bounds of the model

MaxPageLen == 2
MaxVelocity == 60
MaxRepos == 3
MaxCalls == 3
MaxScans == 1
MaxClock == 3600
Now0 == 1000000

----------------------------------------------------------------------------
\* Stargazer events.  An event is the value of its "starred_at" field: a
\* positive integer is a well-formed timestamp (seconds), NoStamp a missing
\* or empty field, BadStamp a string strptime rejects.

NoStamp == 0
BadStamp == -1

Min(a, b) == IF a < b THEN a ELSE b

\* line 127: cutoff_date = datetime.now() - timedelta(days=7)
Cutoff(now) == now - WindowDays * SecondsPerDay

\* line 145: starred_at > cutoff_date
InWindowAtCutoff(starred_at, cutoff) == starred_at >= cutoff
InWindow(starred_at, cutoff) == starred_at > cutoff

\* lines 123-124
LastPage(stars) ==
    LET last_page == (stars \div per_page) + 1
    IN  IF last_page > MaxLastPage THEN MaxLastPage ELSE last_page

\* line 132: the while condition
LoopCondNoBudget(checked, page) == page > 0
LoopCond(checked, page) == checked < max_pages_to_check /\ page > 0

\* lines 141-148: the scan of one page, newest event first (reversed(data)
\* visits index Len(data) first).  The loop skips events without a timestamp,
\* counts the ones in the window and ends at the first event that is not:
\* how is "return" (line 148) for a timestamp outside the window, "raise"
\* for one strptime rejects (caught at line 151), "end" when the page is
\* exhausted.  seen is the number of events visited.
ScanEvents(data, cnt, cutoff) ==
    LET n == Len(data)
        enders == {k \in 1..n :
                     /\ data[k] # NoStamp
                     /\ (data[k] = BadStamp \/ ~InWindow(data[k], cutoff))}
        k0 == IF enders = {} THEN 0
              ELSE CHOOSE k \in enders : \A m \in enders : m <= k
        counted == {k \in (k0 + 1)..n : data[k] # NoStamp}
    IN  [count |-> cnt + Cardinality(counted),
         seen  |-> IF k0 = 0 THEN n ELSE n - k0 + 1,
         how   |-> IF k0 = 0 THEN "end"
                   ELSE IF data[k0] = BadStamp THEN "raise" ELSE "return"]

----------------------------------------------------------------------------
\* The stargazer endpoint

NoResp == [err |-> "none", status |-> 0, json |-> FALSE, data |-> <<>>]
TransportFailure == [err |-> "transport", status |-> 0, json |-> FALSE, data |-> <<>>]
HttpError(s) == [err |-> "none", status |-> s, json |-> TRUE, data |-> <<>>]
NotJson == [err |-> "none", status |-> 200, json |-> FALSE, data |-> <<>>]
Ok(data) == [err |-> "none", status |-> 200, json |-> TRUE, data |-> data]

Failures == {TransportFailure, HttpError(403), HttpError(500), NotJson}

\* Event values around the cutoff, and the pages built from them
EventValues(cutoff) == {BadStamp, NoStamp, cutoff - 1, cutoff, cutoff + 1}
ShortPages(cutoff) ==
    UNION {[1..n -> EventValues(cutoff)] : n \in 0..MaxPageLen}

\* A history of `total` events with strictly increasing timestamps whose
\* `recent` newest events are after the cutoff (event total - recent is
\* exactly at the cutoff), served oldest first in pages of per_page.
HistPage(total, recent, page, cutoff) ==
    LET first == per_page * (page - 1) + 1
        last  == Min(per_page * page, total)
    IN  IF last < first THEN <<>>
        ELSE [j \in 1..(last - first + 1) |->
                 cutoff + ((first + j - 1) - (total - recent))]

\* What the endpoint may answer to a request for `page`
Responses(srv, page, cutoff) ==
    IF srv.mode = "any"
    THEN Failures \cup {Ok(d) : d \in ShortPages(cutoff)}
    ELSE {Ok(HistPage(srv.total, srv.recent, page, cutoff))}
           \cup (IF srv.reliable THEN {} ELSE Failures)

----------------------------------------------------------------------------
\* get_star_velocity

\* lines 137, 139 and the except of line 151 for the request itself
BreaksLoopIgnoringEmpty(r) == r.err # "none" \/ r.status # 200 \/ ~r.json
BreaksLoop(r) ==
    r.err # "none" \/ r.status # 200 \/ ~r.json \/ r.data = <<>>

BreakReason(r) ==
    IF r.err # "none" THEN "transport"
    ELSE IF r.status # 200 THEN "status"
    ELSE IF ~r.json THEN "decode"
    ELSE "empty"

\* lines 120-130
Enter ==
    /\ pc = "call"
    /\ cutoff_date' = Cutoff(Now0)
    /\ requests' = <<>>
    /\ examined' = 0
    /\ resp' = NoResp
    /\ pages_checked' = 0
    /\ count_7_days' = 0
    /\ IF total_stars = 0
       THEN /\ pc' = "done"
            /\ velocity' = 0
            /\ stop' = "zero"
            /\ current_page' = 0
       ELSE /\ pc' = "loop"
            /\ velocity' = 0
            /\ stop' = "none"
            /\ current_page' = LastPage(total_stars)
    /\ UNCHANGED <<scanVars, cacheVars, bucket, server, total_stars>>

\* lines 132-154: one iteration of the while loop, and the return when the
\* loop ends
FetchPage ==
    /\ pc = "loop"
    /\ \E r \in Responses(server, current_page, cutoff_date) :
         /\ requests' = Append(requests, current_page)
         /\ resp' = r
         /\ IF BreaksLoop(r)
            THEN /\ pc' = "done"
                 /\ velocity' = count_7_days
                 /\ stop' = BreakReason(r)
                 /\ UNCHANGED <<count_7_days, examined, current_page,
                                pages_checked>>
            ELSE LET sc == ScanEvents(r.data, count_7_days, cutoff_date)
                 IN  /\ count_7_days' = sc.count
                     /\ examined' = examined + sc.seen
                     /\ IF sc.how = "return"
                        THEN /\ pc' = "done"
                             /\ velocity' = sc.count
                             /\ stop' = "old"
                             /\ UNCHANGED <<current_page, pages_checked>>
                        ELSE IF sc.how = "raise"
                        THEN /\ pc' = "done"
                             /\ velocity' = sc.count
                             /\ stop' = "bad_event"
                             /\ UNCHANGED <<current_page, pages_checked>>
                        ELSE /\ current_page' = current_page - 1
                             /\ pages_checked' = pages_checked + 1
                             /\ IF LoopCond(pages_checked + 1, current_page - 1)
                                THEN /\ pc' = "loop"
                                     /\ stop' = "none"
                                     /\ UNCHANGED velocity
                                ELSE /\ pc' = "done"
                                     /\ velocity' = sc.count
                                     /\ stop' = IF pages_checked + 1 <
                                                   max_pages_to_check
                                                THEN "page0" ELSE "budget"
    /\ UNCHANGED <<scanVars, cacheVars, bucket, server, total_stars,
                   cutoff_date>>

----------------------------------------------------------------------------
\* bucket_repo (lines 156-160)

\* thresholds taken as >=
bucket_repo_inclusive(v, stars) ==
    IF stars > HugeStars /\ v = 0 THEN "Breakout (Huge)"
    ELSE IF v >= BreakoutVelocity THEN "Breakout"
    ELSE IF v >= GrowingVelocity THEN "Growing"
    ELSE "Early"

\* the velocity rules first: the rule for huge repositories, placed after
\* the final else, is never reached
bucket_repo_reordered(v, stars) ==
    IF v > BreakoutVelocity THEN "Breakout"
    ELSE IF v > GrowingVelocity THEN "Growing"
    ELSE "Early"

bucket_repo(v, stars) ==
    IF stars > HugeStars /\ v = 0 THEN "Breakout (Huge)"
    ELSE IF v > BreakoutVelocity THEN "Breakout"
    ELSE IF v > GrowingVelocity THEN "Growing"
    ELSE "Early"

----------------------------------------------------------------------------
\* The search endpoint and fetch_repos (lines 106-116)

Topics == {"rust", "wasm"}

Repo(n, s) == [name |-> n, stargazers_count |-> s]

\* Repositories a search may return, in the order sort=stars&order=desc
\* gives them
Catalogue ==
    <<Repo("repo1", 100000), Repo("repo2", 500), Repo("repo3", 10),
      Repo("repo4", 0)>>

\* The elements of cat at the indices S, in order
Pick(cat, S) ==
    [k \in 1..Cardinality(S) |->
        cat[CHOOSE i \in S : Cardinality({j \in S : j < i}) = k - 1]]

\* The item lists a search over cat may return
SearchLists(cat) ==
    {Pick(cat, S) : S \in {T \in SUBSET (1..Len(cat)) : Cardinality(T) <= MaxRepos}}

NoSearch ==
    [err |-> "none", status |-> 0, json |-> FALSE, hasItems |-> FALSE,
     items |-> <<>>]

SearchResponses(cat) ==
    {[err |-> "transport", status |-> 0, json |-> FALSE, hasItems |-> FALSE,
      items |-> <<>>]}
    \cup {[err |-> "none", status |-> s, json |-> FALSE, hasItems |-> FALSE,
           items |-> <<>>] : s \in {200, 500}}
    \cup {[err |-> "none", status |-> 200, json |-> TRUE, hasItems |-> FALSE,
           items |-> <<>>]}
    \cup {[err |-> "none", status |-> s, json |-> TRUE, hasItems |-> TRUE,
           items |-> l] : s \in {200, 403, 500}, l \in SearchLists(cat)}

\* lines 110-116: the value fetch_repos computes from the response
SearchItemsAnyStatus(r) ==
    IF r.err # "none" THEN <<>>
    ELSE IF ~r.json THEN <<>>
    ELSE IF r.hasItems THEN r.items ELSE <<>>

SearchItems(r) ==
    IF r.err # "none" THEN <<>>
    ELSE IF r.status # 200 THEN <<>>
    ELSE IF ~r.json THEN <<>>
    ELSE IF r.hasItems THEN r.items ELSE <<>>

\* lines 110, 115: every exception of the request is caught
Escapes(r) == FALSE

NoEntry == [has |-> FALSE, value |-> <<>>, time |-> 0]

\* line 106: an entry of st.cache_data(ttl=3600) is served until it is ttl
\* seconds old
FreshForever(e, now) == e.has
Fresh(e, now) == e.has /\ now - e.time < ttl

\* line 106-116: a call fetch_repos(t); its return value goes to repos
fetch_repos(t) ==
    IF Fresh(cache[t], clock)
    THEN /\ repos' = cache[t].value
         /\ calls' = Append(calls, [topic |-> t, time |-> clock,
                                    ret |-> cache[t].value, hit |-> TRUE])
         /\ UNCHANGED <<cache, searchLog, raised, sresp>>
    ELSE \E r \in SearchResponses(catalogue) :
           LET items == SearchItems(r)
           IN  /\ sresp' = r
               /\ searchLog' = Append(searchLog, [topic |-> t, time |-> clock,
                                                  ret |-> items])
               /\ raised' = (raised \/ Escapes(r))
               /\ repos' = items
               /\ cache' = [cache EXCEPT ![t] =
                              [has |-> TRUE, value |-> items, time |-> clock]]
               /\ calls' = Append(calls, [topic |-> t, time |-> clock,
                                          ret |-> items, hit |-> FALSE])

\* A call of fetch_repos on its own
FetchReposCall ==
    /\ pc = "idle"
    /\ Len(calls) < MaxCalls
    /\ \E t \in Topics :
         /\ topic' = t
         /\ fetch_repos(t)
    /\ UNCHANGED <<pc, results, df, idx, bucket, clock, catalogue, server,
                   total_stars, callVars>>

\* Time passes
TickChoices == {ttl \div 2 - 1, ttl \div 2}

Tick ==
    /\ pc \in {"idle", "shown"}
    /\ \E d \in TickChoices :
         /\ clock + d <= MaxClock
         /\ clock' = clock + d
    /\ UNCHANGED <<pc, scanVars, bucket, cache, searchLog, calls, raised,
                   sresp, catalogue, server, total_stars, callVars>>

----------------------------------------------------------------------------
\* The scan (lines 218-247)

Row(repo, v, b) ==
    [Name |-> repo.name, Stars |-> repo.stargazers_count, Velocity |-> v,
     Bucket |-> b]

\* line 247: sort_values(by="Velocity (7d)", ascending=False); the order of
\* rows of equal velocity is not fixed by the sort
SortedAscending(rows) ==
    {[k \in 1..Len(rows) |-> rows[f[k]]] :
        f \in {g \in [1..Len(rows) -> 1..Len(rows)] :
                 /\ \A a, b \in 1..Len(rows) : a # b => g[a] # g[b]
                 /\ \A a \in 1..(Len(rows) - 1) :
                      rows[g[a]].Velocity <= rows[g[a + 1]].Velocity}}

SortedByVelocity(rows) ==
    {[k \in 1..Len(rows) |-> rows[f[k]]] :
        f \in {g \in [1..Len(rows) -> 1..Len(rows)] :
                 /\ \A a, b \in 1..Len(rows) : a # b => g[a] # g[b]
                 /\ \A a \in 1..(Len(rows) - 1) :
                      rows[g[a]].Velocity >= rows[g[a + 1]].Velocity}}

\* What the stargazer endpoint may hold for a repository the search listed
\* with `stars` stars: the repository may have gained stars since
GrowthChoices == {0, 60}
ScanRecent == {5, 60}

ScanServers(stars) ==
    {[mode |-> "history", total |-> stars + gr[1], recent |-> gr[2],
      reliable |-> FALSE] :
        gr \in {x \in GrowthChoices \X ScanRecent : x[2] <= stars + x[1]}}
    \cup {[mode |-> "history", total |-> stars, recent |-> 0,
           reliable |-> FALSE]}

NoServer == [mode |-> "any", total |-> 0, recent |-> 0, reliable |-> FALSE]

\* lines 218-225
RunPressed ==
    /\ pc \in {"idle", "shown"}
    /\ Len(calls) < MaxScans
    /\ \E t \in Topics :
         /\ topic' = t
         /\ fetch_repos(t)
    /\ results' = <<>>
    /\ df' = <<>>
    /\ idx' = 0
    /\ pc' = "for"
    /\ UNCHANGED <<bucket, clock, catalogue, server, total_stars, callVars>>

\* lines 227-229: the loop takes the next repository and calls
\* get_star_velocity
AnalyzeRepo ==
    /\ pc = "for"
    /\ idx < Len(repos)
    /\ total_stars' = repos[idx + 1].stargazers_count
    /\ server' \in ScanServers(repos[idx + 1].stargazers_count)
    /\ pc' = "call"
    /\ UNCHANGED <<scanVars, cacheVars, bucket, callVars>>

\* lines 229-241: the call has returned; classify and append the row
AppendRow ==
    /\ pc = "done"
    /\ idx < Len(repos)
    /\ bucket' = bucket_repo(velocity, repos[idx + 1].stargazers_count)
    /\ results' = Append(results,
                         Row(repos[idx + 1], velocity,
                             bucket_repo(velocity,
                                         repos[idx + 1].stargazers_count)))
    /\ idx' = idx + 1
    /\ pc' = "for"
    /\ server' = NoServer
    /\ velocity' = 0
    /\ cutoff_date' = 0
    /\ current_page' = 0
    /\ pages_checked' = 0
    /\ count_7_days' = 0
    /\ requests' = <<>>
    /\ examined' = 0
    /\ resp' = NoResp
    /\ stop' = "none"
    /\ UNCHANGED <<topic, repos, df, cacheVars, total_stars>>

\* lines 243-247 and 323-324: the loop is over
Finish ==
    /\ pc = "for"
    /\ idx = Len(repos)
    /\ IF results # <<>>
       THEN df' \in SortedByVelocity(results)
       ELSE df' = <<>>
    /\ pc' = "shown"
    /\ UNCHANGED <<topic, repos, results, idx, bucket, cacheVars, server,
                   total_stars, callVars>>

----------------------------------------------------------------------------
\* Calls of get_star_velocity against an arbitrary endpoint

StarChoices ==
    {0, 1, 2, 99, 100, 101, 450, 39999, 40000, 40001, 50000, 100000}

InitRest ==
    /\ topic = ""
    /\ repos = <<>>
    /\ results = <<>>
    /\ df = <<>>
    /\ idx = 0
    /\ bucket = ""
    /\ cache = [t \in Topics |-> NoEntry]
    /\ clock = 0
    /\ searchLog = <<>>
    /\ calls = <<>>
    /\ raised = FALSE
    /\ sresp = NoSearch

InitCall ==
    /\ cutoff_date = 0
    /\ current_page = 0
    /\ pages_checked = 0
    /\ count_7_days = 0
    /\ requests = <<>>
    /\ examined = 0
    /\ resp = NoResp
    /\ stop = "none"

InitVelocity ==
    /\ InitRest
    /\ InitCall
    /\ velocity = 0
    /\ pc = "call"
    /\ catalogue = <<>>
    /\ total_stars \in StarChoices
    /\ server = NoServer

NextVelocity == Enter \/ FetchPage

SpecVelocity == InitVelocity /\ [][NextVelocity]_vars

\* C1: the value returned by get_star_velocity lies between 0 and
\* total_stars, whatever the endpoint answers.
C1_VelocityWithinTotal ==
    pc = "done" => (0 <= velocity /\ velocity <= total_stars)

\* C8: a call issues at most 5 page requests, each for a page in 1..400,
\* every step of the loop issues one request (so the call cannot run
\* forever), an unfinished call can always take its next step, and the value
\* returned is the accumulated count.
C8_PageBudget ==
    /\ [](/\ Len(requests) <= 5
          /\ \A k \in 1..Len(requests) : requests[k] \in 1..400
          /\ (pc = "done" => velocity = count_7_days)
          /\ (pc # "done" => ENABLED NextVelocity))
    /\ [][pc = "loop" => Len(requests') = Len(requests) + 1]_vars

C8_Witness ==
    /\ pc = "done"
    /\ stop = "budget"
    /\ requests = <<400, 399, 398, 397, 396>>
    /\ velocity = 10

\* The events of a page in the order the scan visits them (newest first)
ScanOrder(data) == [j \in 1..Len(data) |-> data[Len(data) + 1 - j]]

\* Position in scan order of the first well-formed timestamp at or before
\* the cutoff, 0 when there is none
FirstOld(s, cutoff) ==
    LET old == {j \in 1..Len(s) : s[j] > 0 /\ s[j] <= cutoff}
    IN  IF old = {} THEN 0
        ELSE CHOOSE j \in old : \A i \in old : j <= i

\* C9: when the scan meets its first event at or before the cutoff, the call
\* ends at once: it returns the events counted before that one, examines no
\* later event of the page and fetches no further page.
C9_EarlyStop ==
    /\ [][(/\ pc = "loop"
           /\ requests' # requests
           /\ resp'.err = "none" /\ resp'.status = 200 /\ resp'.json
           /\ LET s == ScanOrder(resp'.data)
                  p == FirstOld(s, cutoff_date)
              IN  p > 0 /\ \A i \in 1..(p - 1) : s[i] # BadStamp)
          => LET s == ScanOrder(resp'.data)
                 p == FirstOld(s, cutoff_date)
             IN  /\ pc' = "done"
                 /\ stop' = "old"
                 /\ velocity' = count_7_days
                      + Cardinality({i \in 1..(p - 1) : s[i] > cutoff_date})
                 /\ examined' = examined + p
                 /\ pages_checked' = pages_checked]_vars
    /\ [](stop = "old" => pc = "done" /\ ~ENABLED FetchPage)

C9_Witness ==
    /\ stop = "old"
    /\ Len(requests) = 2
    /\ Len(resp.data) = 2
    /\ resp.data[2] = cutoff_date
    /\ resp.data[1] = cutoff_date + 1
    /\ examined = 3
    /\ velocity = 2

\* C10: a page fetch that fails (transport failure, status other than 200,
\* undecodable body) or returns no events ends the call: it returns the count
\* accumulated before that fetch, nothing is raised, and no further request
\* is issued.
C10_FailureEndsCall ==
    /\ [][(/\ pc = "loop"
           /\ requests' # requests
           /\ \/ resp'.err # "none"
              \/ resp'.status # 200
              \/ ~resp'.json
              \/ resp'.data = <<>>)
          => /\ pc' = "done"
             /\ velocity' = count_7_days
             /\ examined' = examined
             /\ ~raised']_vars
    /\ [](stop \in {"transport", "status", "decode", "empty"}
            => pc = "done" /\ ~ENABLED FetchPage)

C10_Witness ==
    /\ pc = "done"
    /\ stop = "empty"
    /\ Len(requests) = 3
    /\ velocity = 3

----------------------------------------------------------------------------
\* Calls of get_star_velocity against an endpoint that serves the exact
\* history of the repository and never fails

HistoryTotals == {1, 50, 100, 101, 200, 250, 1050, 40000, 40050, 50000}
RecentChoices == {0, 1, 3, 50, 100, 130, 480, 500, 600}

InitHistory ==
    /\ InitRest
    /\ InitCall
    /\ velocity = 0
    /\ pc = "call"
    /\ catalogue = <<>>
    /\ \E t \in HistoryTotals, r \in RecentChoices :
         /\ r <= t
         /\ total_stars = t
         /\ server = [mode |-> "history", total |-> t, recent |-> r,
                      reliable |-> TRUE]

SpecHistory == InitHistory /\ [][NextVelocity]_vars

\* C2: against the exact history, the call returns the number of events
\* strictly after the cutoff whenever that number is at most 500.
C2_ExactCount ==
    (pc = "done" /\ server.recent <= 500) => velocity = server.recent

----------------------------------------------------------------------------
\* bucket_repo on its own

InitBucket ==
    /\ InitRest
    /\ InitCall
    /\ pc = "classify"
    /\ catalogue = <<>>
    /\ server = NoServer
    /\ total_stars \in StarChoices
    /\ velocity \in 0..MaxVelocity

Classify ==
    /\ pc = "classify"
    /\ bucket' = bucket_repo(velocity, total_stars)
    /\ pc' = "classified"
    /\ UNCHANGED <<scanVars, cacheVars, server, total_stars, callVars>>

SpecBucket == InitBucket /\ [][Classify]_vars

C4_MassiveLowNeverEarly ==
    (pc = "classified" /\ total_stars > 40000 /\ velocity <= 10)
        => bucket # "Early"

\* C4 as amended: a repository of more than 40000 stars with velocity 0 is
\* never classified Early.
C4_MassiveZeroNeverEarly ==
    (pc = "classified" /\ total_stars > 40000 /\ velocity = 0)
        => bucket # "Early"

C4_Witness ==
    /\ pc = "classified"
    /\ total_stars = 40001
    /\ velocity = 0
    /\ bucket = "Breakout (Huge)"

----------------------------------------------------------------------------
\* Calls of fetch_repos over time

InitCache ==
    /\ InitRest
    /\ InitCall
    /\ velocity = 0
    /\ pc = "idle"
    /\ catalogue = SubSeq(Catalogue, 1, 2)
    /\ server = NoServer
    /\ total_stars = 0

NextCache == FetchReposCall \/ Tick

SpecCache == InitCache /\ [][NextCache]_vars

\* C5: two search requests for the same topic are at least an hour apart,
\* and every call returns the list fetched by a request for its topic made
\* less than an hour before it (by an earlier call or by itself); so calls
\* within the hour share one request and the first call after it issues a
\* new one.
C5_OneRequestPerWindow ==
    /\ \A i, j \in 1..Len(searchLog) :
         (i < j /\ searchLog[i].topic = searchLog[j].topic)
            => searchLog[j].time - searchLog[i].time >= 3600
    /\ \A c \in 1..Len(calls) :
         \E q \in 1..Len(searchLog) :
            /\ searchLog[q].topic = calls[c].topic
            /\ searchLog[q].time <= calls[c].time
            /\ calls[c].time - searchLog[q].time < 3600
            /\ calls[c].ret = searchLog[q].ret
    /\ Len(searchLog) <= Len(calls)

C5_Witness ==
    /\ Len(calls) = 3
    /\ calls[1].topic = "rust" /\ calls[2].topic = "rust"
    /\ calls[3].topic = "rust"
    /\ calls[1].time = 0 /\ calls[2].time = 1800 /\ calls[3].time = 3600
    /\ calls[1].ret # <<>>
    /\ calls[2].ret = calls[1].ret
    /\ calls[3].ret # calls[1].ret
    /\ Len(searchLog) = 2

----------------------------------------------------------------------------
\* Scans

InitScan ==
    /\ InitRest
    /\ InitCall
    /\ velocity = 0
    /\ pc = "idle"
    /\ catalogue = Catalogue
    /\ server = NoServer
    /\ total_stars = 0

Next == RunPressed \/ AnalyzeRepo \/ Enter \/ FetchPage \/ AppendRow \/ Finish

Spec == InitScan /\ [][Next]_vars

SearchFailed(r) == r.err # "none" \/ r.status # 200 \/ ~r.json

\* C6: when the search request of a scan fails (transport failure, status
\* other than 200, undecodable body), fetch_repos returns the empty list,
\* nothing is raised, the scan never calls get_star_velocity or requests a
\* stargazer page, and it ends with an empty result set.
C6_SearchFailureGivesEmptyScan ==
    (/\ pc # "idle"
     /\ calls # <<>>
     /\ ~calls[Len(calls)].hit
     /\ SearchFailed(sresp))
    => /\ repos = <<>>
       /\ calls[Len(calls)].ret = <<>>
       /\ ~raised
       /\ pc \in {"for", "shown"}
       /\ requests = <<>>
       /\ results = <<>>
       /\ df = <<>>

C6_Witness ==
    /\ pc = "shown"
    /\ ~calls[Len(calls)].hit
    /\ sresp.err = "none"
    /\ sresp.status = 500
    /\ sresp.items # <<>>
    /\ results = <<>>
    /\ df = <<>>

Stars(rows) == [k \in 1..Len(rows) |-> rows[k].Stars]
Velocities(rows) == [k \in 1..Len(rows) |-> rows[k].Velocity]
Buckets(rows) == [k \in 1..Len(rows) |-> rows[k].Bucket]
Names(rows) == [k \in 1..Len(rows) |-> rows[k].Name]

\* C7: the scan appends one row per repository of the list, in list order,
\* each with the tier bucket_repo gives its velocity and stars, and shows
\* the rows ordered by non-increasing velocity; stars [100000, 500, 10] with
\* velocities [0, 60, 5] give tiers [Breakout (Huge), Breakout, Early] and
\* the order repo2, repo3, repo1.
C7_OneRowPerRepoSorted ==
    /\ (pc \in {"for", "call", "loop", "done", "shown"}) =>
          /\ Len(results) = idx
          /\ idx <= Len(repos)
          /\ \A k \in 1..Len(results) :
                /\ results[k].Name = repos[k].name
                /\ results[k].Stars = repos[k].stargazers_count
                /\ results[k].Bucket =
                      bucket_repo(results[k].Velocity, results[k].Stars)
    /\ pc = "shown" =>
          /\ Len(results) = Len(repos)
          /\ Len(df) = Len(results)
          /\ {df[k] : k \in 1..Len(df)} = {results[k] : k \in 1..Len(results)}
          /\ \A k \in 1..(Len(df) - 1) : df[k].Velocity >= df[k + 1].Velocity
          /\ (Stars(results) = <<100000, 500, 10>>
              /\ Velocities(results) = <<0, 60, 5>>)
             => /\ Buckets(results) = <<"Breakout (Huge)", "Breakout", "Early">>
                /\ Names(df) = <<"repo2", "repo3", "repo1">>

C7_Witness ==
    /\ pc = "shown"
    /\ Stars(results) = <<100000, 500, 10>>
    /\ Velocities(results) = <<0, 60, 5>>
    /\ Names(df) = <<"repo2", "repo3", "repo1">>

====
